---------------------------- MODULE Spec2Model ----------------------------
(***************************************************************************)
(* Model of down3dtiles/download_3dtiles.py: class TilesDownloader.        *)
(*                                                                         *)
(* Strings are sequences of atoms.  An atom is a run of characters that    *)
(* the program never looks inside: "/" is the path separator, ".json" and  *)
(* ".b3dm" are file extensions, every other atom is a name without "/" and *)
(* without ".".  Concatenation of strings is \o, so str.split, endswith,   *)
(* startswith, rstrip, os.path.join, os.path.dirname and os.path.basename  *)
(* are computed on the atom sequence as Python computes them on the        *)
(* characters.                                                             *)
(*                                                                         *)
(* The mutual recursion download_file -> process_json_file ->              *)
(* extract_urls_from_node -> download_file is an explicit call stack.      *)
(***************************************************************************)
EXTENDS Integers, Sequences, FiniteSets, TLC

SEP == "/"

(* ----------------------------- str methods ----------------------------- *)

\* str.rstrip('/')
RECURSIVE rstrip(_)
rstrip(s) ==
    IF s # <<>> /\ s[Len(s)] = SEP THEN rstrip(SubSeq(s, 1, Len(s) - 1)) ELSE s

\* str.endswith('.json')
endswith_json(s) == s # <<>> /\ s[Len(s)] = ".json"

\* str.startswith('Data/')
startswith_Data(s) == Len(s) >= 2 /\ s[1] = "Data" /\ s[2] = SEP

\* '/' in url
has_sep(s) == \E i \in 1..Len(s) : s[i] = SEP

\* index of the first "/" of s, 0 when there is none
first_sep(s) ==
    IF has_sep(s) THEN CHOOSE i \in 1..Len(s) : s[i] = SEP /\ \A j \in 1..(i - 1) : s[j] # SEP
    ELSE 0

\* index of the last "/" of s, 0 when there is none (str.rfind('/') + 1)
last_sep(s) ==
    IF has_sep(s) THEN CHOOSE i \in 1..Len(s) : s[i] = SEP /\ \A j \in (i + 1)..Len(s) : s[j] # SEP
    ELSE 0

\* str.split('/'): the sequence of the segments between the separators
RECURSIVE split(_)
split(s) ==
    IF has_sep(s)
    THEN <<SubSeq(s, 1, first_sep(s) - 1)>> \o split(SubSeq(s, first_sep(s) + 1, Len(s)))
    ELSE <<s>>

(* ------------------------------ os.path -------------------------------- *)

\* posixpath.join(a, b)
os_path_join(a, b) ==
    IF b # <<>> /\ b[1] = SEP THEN b
    ELSE IF a = <<>> \/ a[Len(a)] = SEP THEN a \o b
    ELSE a \o <<SEP>> \o b

\* posixpath.join(a, b, c, d)
os_path_join4(a, b, c, d) == os_path_join(os_path_join(os_path_join(a, b), c), d)

\* posixpath.basename(p)
os_path_basename(p) == SubSeq(p, last_sep(p) + 1, Len(p))

\* posixpath.dirname(p)
os_path_dirname(p) ==
    LET head == SubSeq(p, 1, last_sep(p))
    IN  IF head # <<>> /\ \E i \in 1..Len(head) : head[i] # SEP THEN rstrip(head) ELSE head


(* --------------------------- manifest inputs --------------------------- *)

\* A manifest node as json.load returns it.  kind "url": the node has
\* node['content']['url'], a string; kind "none": it has no content reference;
\* kind "badurl": node['content']['url'] is not a string, so url.endswith
\* raises.  kids: node['children'] as indices into the document's node list
\* (<<>> when the key is absent).
Node(kind, url, kids) == [kind |-> kind, url |-> url, kids |-> kids]

\* A file body.  parse "ok": json.load returns a dict whose root node is
\* nodes[1]; parse "malformed": json.load raises.  fmt is the layout of the
\* bytes: "dump" is the layout json.dump produces.
Body(fmt, parse, nodes) == [fmt |-> fmt, parse |-> parse, nodes |-> nodes]

R_tile1 == <<"Data", "/", "Tile_1", "/", "t", ".json">>
R_a7    == <<"a", "/", "Tile_7", "/", "sub", ".json">>
R_one   == <<"Tile_7", "/", "sub", ".json">>
R_sub   == <<"sub", ".json">>
R_foo   == <<"foo", ".b3dm">>
R_x     == <<"x", ".b3dm">>
R_dx    == <<"d", "/", "x", ".b3dm">>
R_ts    == <<"tileset", ".json">>

NoUrl == <<>>

\* the usual layout: Data/Tile_x/name.json, payloads, a deeper reference
RootA == Body("dump", "ok",
              << Node("url", R_tile1, <<2, 3>>), Node("url", R_foo, <<>>),
                 Node("none", NoUrl, <<4>>), Node("url", R_a7, <<>>) >>)
\* manifest references with one and with no "/", a payload with a sub-path
RootB == Body("indent", "ok",
              << Node("none", NoUrl, <<2, 3, 4>>), Node("url", R_one, <<>>),
                 Node("url", R_sub, <<>>), Node("url", R_dx, <<>>) >>)
\* an ill-typed node between two references
RootC == Body("dump", "ok",
              << Node("url", R_x, <<2, 3>>), Node("badurl", NoUrl, <<>>),
                 Node("url", R_foo, <<>>) >>)
\* the same payload referenced twice
RootD == Body("dump", "ok",
              << Node("url", R_foo, <<2>>), Node("url", R_foo, <<>>) >>)
\* no 'root' key: data.get('root', {}) is the empty node
RootE == Body("dump", "ok", << Node("none", NoUrl, <<>>) >>)
\* a manifest reference on a node with a grandchild before a later child
RootF == Body("dump", "ok",
              << Node("url", R_tile1, <<2, 4>>), Node("none", NoUrl, <<3>>),
                 Node("url", R_foo, <<>>), Node("url", R_x, <<>>) >>)
\* a manifest reference named like the root copy
RootG == Body("dump", "ok", << Node("url", R_ts, <<>>) >>)
RootBad == Body("indent", "malformed", <<>>)

RootFiles == {RootA, RootB, RootC, RootD, RootE, RootF, RootG, RootBad}

\* bodies the server answers a manifest URL with
NestedA == Body("dump", "ok",
                << Node("url", R_foo, <<2>>), Node("url", R_sub, <<>>) >>)
NestedB == Body("dump", "ok",
                << Node("none", NoUrl, <<2, 3>>), Node("badurl", NoUrl, <<>>),
                   Node("url", R_x, <<>>) >>)
NestedC == Body("dump", "ok",
                << Node("url", R_tile1, <<2>>), Node("url", R_dx, <<>>) >>)
NestedBad == Body("indent", "malformed", <<>>)

NestedFiles == {NestedA, NestedB, NestedC, NestedBad}

\* the body of a tile payload
Blob == Body("binary", "malformed", <<>>)

\* json.load
json_load_ok(body) == body.parse = "ok"
json_load(body) == body.nodes

\* json.dump: the parsed document in json.dump's own layout
json_dump(data) == Body("dump", "ok", data)

\* a document is well-formed when every content url is a string
WellFormed(data) == \A i \in 1..Len(data) : data[i].kind # "badurl"

BaseUrlInputs == { <<"http://host/tiles">>, <<"http://host/tiles", "/">>,
                   <<"http://host/tiles", "/", "/">> }
OutputDir == <<"downloaded_tiles">>
TilesetName == <<"tileset", ".json">>

(* ------------------------- fault-injection bounds ----------------------- *)

\* calls of one run that meet a fault: a download_file call whose GETs fail or
\* whose file cannot be written, or the copy of the root manifest failing
MaxFaults == 1

(* ------------------------------ the code -------------------------------- *)

\* one attempt too many
max_retries_four == 3 + 1

max_retries == 3

\* the folder of the referencing manifest is left out of the URL
build_full_url_noparent(base, url, parent_folder) == base \o <<SEP>> \o url

\* download_file: the absolute URL of a reference
build_full_url(base, url, parent_folder) ==
    IF parent_folder # <<>> THEN base \o <<SEP, "Data", SEP>> \o parent_folder \o <<SEP>> \o url
    ELSE IF startswith_Data(url) THEN base \o <<SEP>> \o url
    ELSE base \o <<SEP>> \o url

\* index 0 instead of index 1
tile_folder_first(url, parent_folder) ==
    IF has_sep(url) THEN split(url)[1] ELSE parent_folder

\* extract_urls_from_node: url.split('/')[1] if '/' in url else parent_folder
tile_folder(url, parent_folder) ==
    IF has_sep(url) THEN split(url)[2] ELSE parent_folder

\* payloads saved under the output root instead of beside their manifest
local_path_outdir(out, url, base_path, parent_folder) ==
    IF endswith_json(url)
    THEN os_path_join4(out, <<"Data">>, tile_folder(url, parent_folder), os_path_basename(url))
    ELSE os_path_join(out, url)

\* manifests saved under their full reference instead of its basename
local_path_fullref(out, url, base_path, parent_folder) ==
    IF endswith_json(url)
    THEN os_path_join4(out, <<"Data">>, tile_folder(url, parent_folder), url)
    ELSE os_path_join(base_path, url)

\* extract_urls_from_node: the local destination of a reference
local_path(out, url, base_path, parent_folder) ==
    IF endswith_json(url)
    THEN os_path_join4(out, <<"Data">>, tile_folder(url, parent_folder), os_path_basename(url))
    ELSE os_path_join(base_path, url)

\* the folder is taken one directory too high
manifest_parent_folder_above(json_path) ==
    os_path_basename(os_path_dirname(os_path_dirname(json_path)))

\* process_json_file: the folder name passed down to the nodes of a manifest
manifest_parent_folder(json_path) == os_path_basename(os_path_dirname(json_path))

\* process_json_file: the base path passed down to the nodes of a manifest
manifest_base_path(json_path) == os_path_dirname(json_path)

\* the loop over the children never advances: the node is visited again
next_pending_again(data, n, rest) == <<n>> \o rest

\* the children are visited after the later siblings
next_pending_breadth(data, n, rest) == rest \o data[n].kids

\* a node's children are visited twice
next_pending_twice(data, n, rest) == data[n].kids \o data[n].kids \o rest

\* extract_urls_from_node: the nodes still to visit after node n, pre-order
next_pending(data, n, rest) == data[n].kids \o rest

(* ------------------------------- state ---------------------------------- *)

VARIABLES
    pc,                \* "start": constructed; "run": inside process_tileset; "done": main returned
    tileset_file,      \* the body of the local root manifest main reads
    base_url,          \* self.base_url
    output_dir,        \* self.output_dir (<<>> until process_tileset sets it)
    downloaded_files,  \* self.downloaded_files
    fs,                \* the files written: path -> [body, complete]
    dirs,              \* the directories created (the output directory does not exist at start)
    stack,             \* the call stack, innermost call first
    writeCount,        \* history: path -> number of times download_file opened it for writing
    lastCall,          \* history: the download_file call that returned last
    finished,          \* history: the extract_urls_from_node walk that ended last
    origin,            \* history: path -> the URL whose response was last written to it
    cyclic,            \* history: a reference to a manifest being walked was short-circuited
    faults             \* calls that met a transport or filesystem failure so far

vars == <<pc, tileset_file, base_url, output_dir, downloaded_files, fs, dirs, stack,
          writeCount, lastCall, finished, origin, cyclic, faults>>

\* One frame shape serves both kinds of call.
\*   kind "walk": the walk of one manifest by extract_urls_from_node; pending
\*     is the nodes still to visit in pre-order, called the nodes download_file
\*     was called for, failed_at the position in called of the first call that
\*     returned False (0: none did).
\*   kind "download": one download_file call; phase is its position:
\*     "entry", "get" (the retry loop), "save" (lines 56-64), "process" (line 68);
\*     oks and fails count the GETs of the call that succeeded and that failed.
WalkFrame(data, manifest_path, base_path, parent_folder) ==
    [kind |-> "walk", data |-> data, pending |-> <<1>>, called |-> <<>>, failed_at |-> 0,
     aborted |-> FALSE, manifest_path |-> manifest_path, base_path |-> base_path,
     parent_folder |-> parent_folder,
     url |-> <<>>, save_path |-> <<>>, full_url |-> <<>>, retry |-> 0, phase |-> "walk",
     oks |-> 0, fails |-> 0, short |-> FALSE, wrote |-> FALSE, processed |-> FALSE,
     ret |-> FALSE, reason |-> "none"]

DownloadFrame(url, save_path, parent_folder) ==
    [kind |-> "download", data |-> <<>>, pending |-> <<>>, called |-> <<>>, failed_at |-> 0,
     aborted |-> FALSE, manifest_path |-> <<>>, base_path |-> <<>>,
     parent_folder |-> parent_folder,
     url |-> url, save_path |-> save_path, full_url |-> <<>>, retry |-> 0, phase |-> "entry",
     oks |-> 0, fails |-> 0, short |-> FALSE, wrote |-> FALSE, processed |-> FALSE,
     ret |-> FALSE, reason |-> "none"]

NoFrame == [WalkFrame(<<>>, <<>>, <<>>, <<>>) EXCEPT !.kind = "none", !.pending = <<>>]

Top == stack[1]
InDownload(ph) == pc = "run" /\ stack # <<>> /\ Top.kind = "download" /\ Top.phase = ph
InWalk == pc = "run" /\ stack # <<>> /\ Top.kind = "walk"

\* __init__
Init ==
    /\ pc = "start"
    /\ tileset_file \in RootFiles
    /\ \E b \in BaseUrlInputs : base_url = rstrip(b)
    /\ output_dir = <<>>
    /\ downloaded_files = {}
    /\ fs = <<>>
    /\ dirs = {}
    /\ stack = <<>>
    /\ writeCount = <<>>
    /\ lastCall = NoFrame
    /\ finished = NoFrame
    /\ origin = <<>>
    /\ cyclic = FALSE
    /\ faults = 0

\* the file system after path is (re)written with body
fs_write(f, path, body, complete) ==
    (path :> [body |-> body, complete |-> complete]) @@ f

\* the directories on the way to path: path and its leading parts
dir_chain(path) ==
    {SubSeq(path, 1, i - 1) : i \in {j \in 2..Len(path) : path[j] = SEP}} \cup {path}

\* os.makedirs(path, exist_ok=True) raises when a part of path is a file
can_makedirs(f, path) == dir_chain(path) \cap DOMAIN f = {}

\* the directories after os.makedirs(path, exist_ok=True)
makedirs(d, path) == d \cup dir_chain(path)

count_write(w, path) ==
    (path :> (IF path \in DOMAIN w THEN w[path] + 1 ELSE 1)) @@ w

\* the walk stops at the first failed fetch
resume_caller_stop(frame, ok) ==
    IF ~ok THEN [frame EXCEPT !.failed_at = Len(frame.called), !.pending = <<>>] ELSE frame

\* extract_urls_from_node ignores what download_file returns: the walk goes on
resume_caller(frame, ok) ==
    IF ~ok /\ frame.failed_at = 0 THEN [frame EXCEPT !.failed_at = Len(frame.called)] ELSE frame

\* the stack after the download_file call on top of st has returned ok
returned(st, ok) ==
    <<resume_caller(st[2], ok)>> \o SubSeq(st, 3, Len(st))

\* the walk on top of st ended (aborted: by an exception).  The root walk ends
\* process_tileset; a nested walk ends process_json_file, whose caller
\* download_file then returns True (line 70).
walk_ended(st) ==
    IF Len(st) = 1 THEN <<>> ELSE returned(Tail(st), TRUE)

(* ------------------------------ actions --------------------------------- *)

\* process_tileset up to the first extract_urls_from_node: read and parse the
\* local tileset.json, copy it to the output directory, start the root walk.
\* Any exception (parse error, OSError) is caught at line 133 and main ends.
process_tileset ==
    /\ pc = "start"
    /\ output_dir' = OutputDir
    /\ IF ~json_load_ok(tileset_file)
       THEN /\ pc' = "done"
            /\ UNCHANGED <<fs, dirs, stack, faults>>
       ELSE \E io \in {"ok", "oserror", "partial"} :
              LET output_tileset == os_path_join(OutputDir, TilesetName)
                  data == json_load(tileset_file)
              IN  CASE io = "ok" ->
                         /\ dirs' = makedirs(dirs, OutputDir)
                         /\ fs' = fs_write(fs, output_tileset, json_dump(data), TRUE)
                         /\ stack' = <<WalkFrame(data, output_tileset, OutputDir, <<>>)>>
                         /\ pc' = "run"
                         /\ UNCHANGED faults
                    [] io = "oserror" ->
                         /\ faults < MaxFaults
                         /\ faults' = faults + 1
                         /\ pc' = "done"
                         /\ UNCHANGED <<fs, dirs, stack>>
                    [] io = "partial" ->
                         /\ faults < MaxFaults
                         /\ faults' = faults + 1
                         /\ dirs' = makedirs(dirs, OutputDir)
                         /\ fs' = fs_write(fs, output_tileset, json_dump(data), FALSE)
                         /\ pc' = "done"
                         /\ UNCHANGED stack
    /\ UNCHANGED <<tileset_file, base_url, downloaded_files, writeCount,
                   lastCall, finished, origin, cyclic>>

\* extract_urls_from_node on the next node of the walk: lines 93-108, then the
\* loop over the children continues from pending.
extract_urls_from_node ==
    /\ InWalk
    /\ Top.pending # <<>>
    /\ LET n    == Head(Top.pending)
           node == Top.data[n]
           rest == next_pending(Top.data, n, Tail(Top.pending))
       IN  CASE node.kind = "none" ->
                  /\ stack' = <<[Top EXCEPT !.pending = rest]>> \o Tail(stack)
                  /\ UNCHANGED <<pc, finished, lastCall>>
             [] node.kind = "url" ->
                  /\ stack' = << DownloadFrame(node.url,
                                     local_path(output_dir, node.url, Top.base_path, Top.parent_folder),
                                     Top.parent_folder),
                                 [Top EXCEPT !.pending = rest, !.called = Append(@, n)] >>
                               \o Tail(stack)
                  /\ UNCHANGED <<pc, finished, lastCall>>
             [] node.kind = "badurl" ->
                  \* url.endswith raises; the exception unwinds the whole walk
                  /\ finished' = [Top EXCEPT !.aborted = TRUE]
                  /\ stack' = walk_ended(stack)
                  /\ pc' = IF Len(stack) = 1 THEN "done" ELSE pc
                  /\ lastCall' = IF Len(stack) = 1 THEN lastCall
                                 ELSE [stack[2] EXCEPT !.ret = TRUE, !.reason = "ok"]
    /\ UNCHANGED <<tileset_file, base_url, output_dir, downloaded_files, fs, dirs,
                   writeCount, origin, cyclic, faults>>

\* the walk of a manifest has visited every node: extract_urls_from_node
\* returns to process_tileset or to process_json_file
walk_return ==
    /\ InWalk
    /\ Top.pending = <<>>
    /\ finished' = Top
    /\ stack' = walk_ended(stack)
    /\ pc' = IF Len(stack) = 1 THEN "done" ELSE pc
    /\ lastCall' = IF Len(stack) = 1 THEN lastCall
                   ELSE [stack[2] EXCEPT !.ret = TRUE, !.reason = "ok"]
    /\ UNCHANGED <<tileset_file, base_url, output_dir, downloaded_files, fs, dirs,
                   writeCount, origin, cyclic, faults>>

\* the membership test is lost
already_downloaded_never(save_path, files) == FALSE

\* download_file, line 25: save_path in self.downloaded_files
already_downloaded(save_path, files) == save_path \in files

\* download_file, lines 25-41: the short-circuit, else the URL is built
download_file_entry ==
    /\ InDownload("entry")
    /\ IF already_downloaded(Top.save_path, downloaded_files)
       THEN /\ lastCall' = [Top EXCEPT !.short = TRUE, !.ret = TRUE, !.reason = "ok"]
            /\ stack' = returned(stack, TRUE)
            /\ cyclic' = (cyclic \/ \E i \in 1..Len(stack) :
                                      stack[i].kind = "walk" /\ stack[i].manifest_path = Top.save_path)
       ELSE /\ stack' = <<[Top EXCEPT !.phase = "get",
                                      !.full_url = build_full_url(base_url, Top.url, Top.parent_folder)]>>
                        \o Tail(stack)
            /\ UNCHANGED <<lastCall, cyclic>>
    /\ UNCHANGED <<pc, tileset_file, base_url, output_dir, downloaded_files, fs, dirs,
                   writeCount, finished, origin, faults>>

\* download_file, lines 45-54: one pass of the retry loop
http_get ==
    /\ InDownload("get")
    /\ \E ok \in BOOLEAN :
         IF ok
         THEN \* break: the response is kept in the frame until it is saved
              /\ \E body \in (IF endswith_json(Top.url) THEN NestedFiles ELSE {Blob}) :
                   stack' = <<[Top EXCEPT !.phase = "save", !.oks = @ + 1, !.data = body]>>
                            \o Tail(stack)
              /\ UNCHANGED <<lastCall, faults>>
         ELSE /\ Top.retry = 0 => faults < MaxFaults
              /\ faults' = IF Top.retry = 0 THEN faults + 1 ELSE faults
              /\ IF Top.retry = max_retries - 1
                 THEN \* raise e, caught at line 72
                      /\ lastCall' = [Top EXCEPT !.fails = @ + 1, !.ret = FALSE,
                                                 !.reason = "transport"]
                      /\ stack' = returned(stack, FALSE)
                 ELSE /\ stack' = <<[Top EXCEPT !.retry = @ + 1, !.fails = @ + 1]>> \o Tail(stack)
                      /\ UNCHANGED lastCall
    /\ UNCHANGED <<pc, tileset_file, base_url, output_dir, downloaded_files, fs, dirs,
                   writeCount, finished, origin, cyclic>>

\* the path is recorded before the file is written
files_after_save_early(files, save_path, complete) == files \cup {save_path}

\* download_file, lines 60-63: self.downloaded_files after the with block;
\* the add is reached only when f.write did not raise
files_after_save(files, save_path, complete) ==
    IF complete THEN files \cup {save_path} ELSE files

\* download_file, lines 56-70: makedirs, open, write, add to downloaded_files.
\* makedirs raises when a directory it needs is an existing file, open raises
\* when save_path is an existing directory; beyond these, io is the injected
\* outcome: "mkdir_error": makedirs raised; "open_error": open raised;
\* "partial": open truncated the file and write raised part-way.
save_file ==
    /\ InDownload("save")
    /\ LET save_path == Top.save_path
           dir       == os_path_dirname(save_path)
           failed    == /\ lastCall' = [Top EXCEPT !.ret = FALSE, !.reason = "filesystem"]
                        /\ stack' = returned(stack, FALSE)
                        /\ UNCHANGED <<fs, writeCount, downloaded_files, origin>>
       IN  IF ~can_makedirs(fs, dir)
           THEN failed /\ UNCHANGED <<dirs, faults>>
           ELSE IF save_path \in makedirs(dirs, dir)
           THEN failed /\ dirs' = makedirs(dirs, dir) /\ UNCHANGED faults
           ELSE \E io \in {"ok", "mkdir_error", "open_error", "partial"} :
             CASE io = "ok" ->
                    /\ dirs' = makedirs(dirs, dir)
                    /\ fs' = fs_write(fs, save_path, Top.data, TRUE)
                    /\ writeCount' = count_write(writeCount, save_path)
                    /\ origin' = (save_path :> Top.full_url) @@ origin
                    /\ downloaded_files' = files_after_save(downloaded_files, save_path, TRUE)
                    /\ IF endswith_json(Top.url)
                       THEN /\ stack' = <<[Top EXCEPT !.phase = "process", !.wrote = TRUE]>>
                                        \o Tail(stack)
                            /\ UNCHANGED lastCall
                       ELSE /\ lastCall' = [Top EXCEPT !.wrote = TRUE, !.ret = TRUE,
                                                       !.reason = "ok"]
                            /\ stack' = returned(stack, TRUE)
                    /\ UNCHANGED faults
               [] io = "mkdir_error" ->
                    /\ faults < MaxFaults
                    /\ faults' = faults + 1
                    /\ failed
                    /\ UNCHANGED dirs
               [] io = "open_error" ->
                    /\ faults < MaxFaults
                    /\ faults' = faults + 1
                    /\ failed
                    /\ dirs' = makedirs(dirs, dir)
               [] io = "partial" ->
                    /\ faults < MaxFaults
                    /\ faults' = faults + 1
                    /\ dirs' = makedirs(dirs, dir)
                    /\ fs' = fs_write(fs, save_path, Top.data, FALSE)
                    /\ writeCount' = count_write(writeCount, save_path)
                    /\ origin' = (save_path :> Top.full_url) @@ origin
                    /\ lastCall' = [Top EXCEPT !.wrote = TRUE, !.ret = FALSE,
                                               !.reason = "filesystem"]
                    /\ stack' = returned(stack, FALSE)
                    /\ downloaded_files' = files_after_save(downloaded_files, save_path, FALSE)
    /\ UNCHANGED <<pc, tileset_file, base_url, output_dir, finished, cyclic>>

\* the parse error reaches the handler of download_file (line 72)
parse_error_returns_false == FALSE

\* what download_file returns when process_json_file could not parse the file:
\* the error is caught inside process_json_file (line 88), so line 70 is reached
parse_error_returns == TRUE

\* process_json_file: parse the file just written; a parse error is caught at
\* line 88 and download_file returns True; else the manifest's walk starts
process_json_file ==
    /\ InDownload("process")
    /\ LET json_path == Top.save_path
           body      == fs[json_path].body
       IN  IF json_load_ok(body)
           THEN /\ stack' = << WalkFrame(json_load(body), json_path,
                                         manifest_base_path(json_path),
                                         manifest_parent_folder(json_path)),
                               [Top EXCEPT !.processed = TRUE] >> \o Tail(stack)
                /\ UNCHANGED lastCall
           ELSE /\ lastCall' = [Top EXCEPT !.processed = TRUE, !.ret = parse_error_returns,
                                           !.reason = "ok"]
                /\ stack' = returned(stack, parse_error_returns)
    /\ UNCHANGED <<pc, tileset_file, base_url, output_dir, downloaded_files, fs, dirs,
                   writeCount, finished, origin, cyclic, faults>>

Next ==
    \/ process_tileset
    \/ extract_urls_from_node
    \/ walk_return
    \/ download_file_entry
    \/ http_get
    \/ save_file
    \/ process_json_file

Spec == Init /\ [][Next]_vars

\* main is one sequential thread: while a step is possible, a step is taken
\* (every GET, file operation and parse returns or raises)
FairInit == Init /\ tileset_file \in {RootA, RootC, RootD, RootE, RootBad}
FairSpec == FairInit /\ [][Next]_vars /\ WF_vars(Next)

(* ------------------------------ properties ------------------------------ *)

Frames == {stack[i] : i \in 1..Len(stack)}
Downloads == {f \in Frames : f.kind = "download"}
\* the download_file calls that have built their URL
Fetches == {f \in Downloads : f.phase # "entry"}
Gets(f) == f.oks + f.fails

\* C1: a download_file call made when save_path is already in
\* downloaded_files returns True at once: no GET, no file written, no manifest
\* processing, downloaded_files unchanged, and the caller's walk resumes.
C1_ShortCircuit ==
    [][ (InDownload("entry") /\ Top.save_path \in downloaded_files) =>
          /\ stack' = <<stack[2]>> \o SubSeq(stack, 3, Len(stack))
          /\ lastCall'.save_path = Top.save_path
          /\ lastCall'.ret = TRUE
          /\ lastCall'.short
          /\ Gets(lastCall') = 0
          /\ ~lastCall'.wrote
          /\ ~lastCall'.processed
          /\ fs' = fs
          /\ writeCount' = writeCount
          /\ downloaded_files' = downloaded_files ]_vars

C1_Witness ==
    /\ lastCall.kind = "download"
    /\ lastCall.short
    /\ lastCall.save_path \in downloaded_files

\* C2: in one run every local file is written by download_file at most once,
\* also when an earlier write of it failed part-way.
C2_WrittenAtMostOnce ==
    \A p \in DOMAIN writeCount : writeCount[p] <= 1

\* C3: a download_file call that is not short-circuited issues between 1 and
\* 3 GETs: none after the first success, another one after a failure only
\* while fewer than 3 were made, and it fails for transport reasons only after
\* 3 failed GETs.
C3_BoundedRetry ==
    /\ \A f \in Downloads :
         /\ f.oks <= 1
         /\ f.phase = "entry" => Gets(f) = 0
         /\ f.phase = "get" => (f.oks = 0 /\ f.fails < 3)
         /\ f.phase \in {"save", "process"} => (f.oks = 1 /\ Gets(f) \in 1..3)
    /\ (lastCall.kind = "download" /\ ~lastCall.short) =>
         (Gets(lastCall) \in 1..3 /\ lastCall.oks <= 1)
    /\ (lastCall.kind = "download" /\ lastCall.reason = "transport") =>
         (lastCall.fails = 3 /\ lastCall.oks = 0 /\ lastCall.ret = FALSE)
    /\ (lastCall.kind = "download" /\ lastCall.oks = 1 /\ lastCall.reason # "filesystem") =>
         lastCall.ret = TRUE

C3_Witness ==
    /\ lastCall.kind = "download"
    /\ lastCall.oks = 1
    /\ lastCall.fails = 2
    /\ lastCall.ret = TRUE

\* C4: when the third GET of a download_file call fails too, the call returns
\* False, writes nothing, does not add save_path to downloaded_files and does
\* not process the file as a manifest.
C4_AllAttemptsFail ==
    [][ ( /\ InDownload("get")
          /\ Top.fails = 2
          /\ ~(Len(stack') = Len(stack) /\ stack'[1].phase = "save") ) =>
          /\ stack' = <<[stack[2] EXCEPT !.failed_at =
                            IF @ = 0 THEN Len(stack[2].called) ELSE @]>>
                      \o SubSeq(stack, 3, Len(stack))
          /\ lastCall'.save_path = Top.save_path
          /\ lastCall'.ret = FALSE
          /\ lastCall'.fails = 3
          /\ ~lastCall'.wrote
          /\ ~lastCall'.processed
          /\ fs' = fs
          /\ writeCount' = writeCount
          /\ downloaded_files' = downloaded_files
          /\ Top.save_path \notin downloaded_files' ]_vars

C4_Witness ==
    /\ lastCall.kind = "download"
    /\ lastCall.reason = "transport"
    /\ lastCall.fails = 3
    /\ lastCall.ret = FALSE
    /\ lastCall.save_path \notin downloaded_files

\* the nodes of a document that carry a content reference
ContentNodes(data) == {i \in 1..Len(data) : data[i].kind = "url"}
CalledNodes(w) == {w.called[i] : i \in 1..Len(w.called)}

\* C5: the walk of a well-formed manifest calls download_file for every node
\* that carries a content reference, whichever of the calls returned False.
C5_WalkSurvivesFailures ==
    (finished.kind = "walk" /\ WellFormed(finished.data)) =>
        /\ ~finished.aborted
        /\ CalledNodes(finished) = ContentNodes(finished.data)

C5_Witness ==
    /\ finished.kind = "walk"
    /\ WellFormed(finished.data)
    /\ finished.failed_at > 0
    /\ finished.failed_at < Len(finished.called)
    /\ CalledNodes(finished) = ContentNodes(finished.data)

(* Paths in the properties are written out by concatenation, and segments  *)
(* are read off the positions of the separators, not with split or os.path. *)

\* the positions of the separators of s
SepAt(s) == {i \in 1..Len(s) : s[i] = SEP}
\* the number of separators of s before position i
SepsBefore(s, i) == Cardinality({j \in SepAt(s) : j < i})
\* segment k of s, counted from 1: the atoms that have k - 1 separators before them
Segment(s, k) ==
    LET at == {i \in 1..Len(s) : s[i] # SEP /\ SepsBefore(s, i) = k - 1}
    IN  IF at = {} THEN <<>>
        ELSE SubSeq(s, CHOOSE i \in at : \A j \in at : i <= j,
                       CHOOSE i \in at : \A j \in at : i >= j)
SegmentCount(s) == Cardinality(SepAt(s)) + 1
LastSegment(s) == Segment(s, SegmentCount(s))
\* p without its leading root and the separator after it
Below(root, p) == SubSeq(p, Len(root) + 2, Len(p))
IsUnder(root, p) ==
    Len(p) > Len(root) + 1 /\ SubSeq(p, 1, Len(root)) = root /\ p[Len(root) + 1] = SEP

OutputRoot == <<"downloaded_tiles">>
BaseStripped == <<"http://host/tiles">>

\* outputRoot/Data/folder/name, and outputRoot/Data/name when folder is empty
ManifestDestination(folder, name) ==
    OutputRoot \o <<SEP, "Data">> \o (IF folder = <<>> THEN <<>> ELSE <<SEP>> \o folder)
               \o <<SEP>> \o name

\* C6: for every asset fetched, the local path below the output root equals
\* the remote path below the base URL.
C6_MirrorsRemoteLayout ==
    \A f \in Fetches :
        /\ IsUnder(OutputRoot, f.save_path)
        /\ IsUnder(BaseStripped, f.full_url)
        /\ Below(OutputRoot, f.save_path) = Below(BaseStripped, f.full_url)

\* C7 as stated: the folder of a nested manifest is the first segment of its
\* reference (parentFolder when the reference has no "/").
C7_FolderIsFirstSegment ==
    \A f \in Downloads :
        endswith_json(f.url) =>
            f.save_path = ManifestDestination(
                              IF SepAt(f.url) # {} THEN Segment(f.url, 1) ELSE f.parent_folder,
                              LastSegment(f.url))

\* C7 as amended: the folder of a nested manifest is the second segment of
\* its reference (index 1 of the split; parentFolder when the reference has no
\* "/"), and the destination is outputRoot/Data/folder/basename, or
\* outputRoot/Data/basename when the folder is the empty string.
C7_FolderIsSecondSegment ==
    \A f \in Downloads :
        endswith_json(f.url) =>
            f.save_path = ManifestDestination(
                              IF SepAt(f.url) # {} THEN Segment(f.url, 2) ELSE f.parent_folder,
                              LastSegment(f.url))

\* a manifest reference with one "/" whose call has been made: the folder is
\* the file name itself
C7_Witness ==
    \E f \in Downloads :
        /\ f.url = R_one
        /\ f.save_path = <<"downloaded_tiles", "/", "Data", "/", "sub", ".json", "/", "sub", ".json">>

\* C8: a manifest reference s0/s1/name.json walked with an empty parentFolder
\* goes to outputRoot/Data/s1/name.json: the folder is the segment that holds
\* the file and s0 is dropped.
C8_ThreeSegmentReference ==
    \A f \in Downloads :
        ( /\ endswith_json(f.url)
          /\ SegmentCount(f.url) = 3
          /\ \A k \in 1..3 : Segment(f.url, k) # <<>>
          /\ f.parent_folder = <<>> ) =>
            /\ f.save_path = OutputRoot \o <<SEP, "Data", SEP>> \o Segment(f.url, 2)
                                        \o <<SEP>> \o Segment(f.url, 3)
            /\ SegmentCount(f.save_path) = 4
            /\ (f.url = R_a7 =>
                  f.save_path = <<"downloaded_tiles", "/", "Data", "/", "Tile_7", "/", "sub", ".json">>)

C8_Witness ==
    \E f \in Downloads :
        /\ f.url = R_a7
        /\ f.parent_folder = <<>>
        /\ f.phase = "process"

\* the download_file calls on the stack, each with the walk that made it
CallsWithWalk ==
    {<<stack[i], stack[i + 1]>> : i \in {j \in 1..(Len(stack) - 1) : stack[j].kind = "download"}}

\* C9: a reference that does not end with the manifest extension goes to
\* basePath/reference, basePath being the directory of the manifest that holds
\* the referencing node; the reference's sub-path is kept.
C9_PayloadBesideManifest ==
    \A c \in CallsWithWalk :
        LET f == c[1]
            m == c[2].manifest_path
            dirlen == Len(m) - Len(LastSegment(m)) - 1
        IN  ~endswith_json(f.url) =>
                /\ dirlen >= 1
                /\ m[dirlen + 1] = SEP
                /\ c[2].base_path = SubSeq(m, 1, dirlen)
                /\ f.save_path = SubSeq(m, 1, dirlen) \o <<SEP>> \o f.url

C9_Witness ==
    \E c \in CallsWithWalk :
        /\ c[1].url = R_foo
        /\ c[2].manifest_path = <<"downloaded_tiles", "/", "Data", "/", "Tile_1", "/", "t", ".json">>
        /\ c[1].save_path = <<"downloaded_tiles", "/", "Data", "/", "Tile_1", "/", "foo", ".b3dm">>
        /\ c[1].phase = "save"

\* C10: the URL requested is base/Data/parentFolder/reference when
\* parentFolder is not empty and base/reference when it is, whether or not the
\* reference starts with "Data/"; base has no trailing "/".
C10_RemoteUrl ==
    \A f \in Fetches :
        f.full_url = IF f.parent_folder # <<>>
                     THEN BaseStripped \o <<SEP, "Data", SEP>> \o f.parent_folder \o <<SEP>> \o f.url
                     ELSE BaseStripped \o <<SEP>> \o f.url

C10_Witness ==
    \E f \in Fetches :
        /\ f.parent_folder = <<"Tile_1">>
        /\ f.url = R_foo
        /\ f.full_url = <<"http://host/tiles", "/", "Data", "/", "Tile_1", "/", "foo", ".b3dm">>
        /\ f.oks = 1

RootCopy == OutputRoot \o <<SEP, "tileset", ".json">>

\* C11: the file process_tileset writes to outputRoot/tileset.json has the
\* bytes of the input file.
C11_RootCopyVerbatim ==
    (RootCopy \in DOMAIN fs /\ fs[RootCopy].complete) => fs[RootCopy].body = tileset_file

Walks == {f \in Frames : f.kind = "walk"}
NoRepeat(q) == \A i, j \in 1..Len(q) : q[i] = q[j] => i = j

\* C12: the walk of a manifest calls download_file once for each node that
\* carries a content reference and never for a node without one; a node with
\* no content reference and no children gives no call.
C12_OneCallPerContentNode ==
    /\ \A w \in Walks \cup ({finished} \ {NoFrame}) :
         /\ NoRepeat(w.called)
         /\ CalledNodes(w) \subseteq ContentNodes(w.data)
    /\ (finished.kind = "walk" /\ WellFormed(finished.data)) =>
         /\ CalledNodes(finished) = ContentNodes(finished.data)
         /\ Len(finished.called) = Cardinality(ContentNodes(finished.data))
    /\ (finished.kind = "walk" /\ Len(finished.data) = 1 /\ finished.data[1].kind = "none") =>
         finished.called = <<>>

C12_Witness ==
    /\ finished.kind = "walk"
    /\ finished.data = RootA.nodes
    /\ finished.called = <<1, 2, 4>>
    /\ ~finished.aborted

\* C13: when a fetched nested manifest cannot be parsed, nothing it references
\* is fetched, its file stays on disk and in downloaded_files, the
\* download_file call returns True and the referencing walk goes on with the
\* nodes it still had to visit.
C13_MalformedNestedManifest ==
    [][ ( /\ InDownload("process")
          /\ fs[Top.save_path].body.parse # "ok" ) =>
          /\ stack' = <<stack[2]>> \o SubSeq(stack, 3, Len(stack))
          /\ stack'[1].pending = stack[2].pending
          /\ lastCall'.save_path = Top.save_path
          /\ lastCall'.ret = TRUE
          /\ fs' = fs
          /\ downloaded_files' = downloaded_files
          /\ Top.save_path \in downloaded_files'
          /\ Top.save_path \in DOMAIN fs' ]_vars

C13_Witness ==
    /\ lastCall.kind = "download"
    /\ lastCall.processed
    /\ lastCall.data.parse = "malformed"
    /\ lastCall.ret = TRUE
    /\ lastCall.save_path \in downloaded_files
    /\ stack # <<>>
    /\ Top.kind = "walk"
    /\ Top.pending # <<>>

\* C14: when the GET succeeded but the directories cannot be made or the file
\* cannot be written completely, download_file returns False without another
\* GET, does not add save_path to downloaded_files and does not process the
\* file as a manifest.
C14_FilesystemFailure ==
    [][ ( /\ InDownload("save")
          /\ ~( /\ Top.save_path \in DOMAIN fs'
                /\ fs'[Top.save_path].complete
                /\ writeCount' # writeCount ) ) =>
          /\ stack' = <<[stack[2] EXCEPT !.failed_at =
                            IF @ = 0 THEN Len(stack[2].called) ELSE @]>>
                      \o SubSeq(stack, 3, Len(stack))
          /\ lastCall'.save_path = Top.save_path
          /\ lastCall'.ret = FALSE
          /\ lastCall'.oks = 1
          /\ Gets(lastCall') = Gets(Top)
          /\ ~lastCall'.processed
          /\ downloaded_files' = downloaded_files
          /\ Top.save_path \notin downloaded_files' ]_vars

C14_Witness ==
    /\ lastCall.kind = "download"
    /\ lastCall.reason = "filesystem"
    /\ lastCall.oks = 1
    /\ lastCall.wrote
    /\ lastCall.ret = FALSE
    /\ lastCall.save_path \notin downloaded_files
    /\ lastCall.save_path \in DOMAIN fs

\* C15: the run always completes: whatever the manifests (also manifests that
\* reference themselves or an ancestor) and whatever fails, process_tileset
\* returns and main reaches its end.
C15_RunCompletes == <>(pc = "done")

\* a run that met a cyclic reference and a failed fetch, and completed
C15_Witness ==
    /\ pc = "done"
    /\ cyclic
    /\ faults > 0
    /\ finished.kind = "walk"
    /\ finished.failed_at > 0

\* the nodes of the subtree at n that carry a content reference, parent before
\* children, children in their listed order
RECURSIVE SubtreeOrder(_, _), ForestOrder(_, _)
SubtreeOrder(data, n) ==
    (IF data[n].kind = "url" THEN <<n>> ELSE <<>>) \o ForestOrder(data, data[n].kids)
ForestOrder(data, ks) ==
    IF ks = <<>> THEN <<>> ELSE SubtreeOrder(data, Head(ks)) \o ForestOrder(data, Tail(ks))
IsPrefix(p, q) == Len(p) <= Len(q) /\ SubSeq(q, 1, Len(p)) = p

\* C16: within a manifest the content nodes are fetched parent first, then the
\* children's subtrees in order; a referenced manifest is walked inside the
\* download_file call that fetched it, after its file is written and before
\* the referencing walk visits any further node.
C16_PreOrderDepthFirst ==
    /\ \A w \in Walks \cup ({finished} \ {NoFrame}) :
         IsPrefix(w.called, SubtreeOrder(w.data, 1))
    /\ \A i \in 1..(Len(stack) - 1) :
         /\ stack[i].kind = "download" =>
              /\ stack[i + 1].kind = "walk"
              /\ stack[i + 1].called # <<>>
              /\ stack[i + 1].data[stack[i + 1].called[Len(stack[i + 1].called)]].url
                     = stack[i].url
              /\ i > 1 => stack[i].phase = "process"
         /\ stack[i].kind = "walk" =>
              /\ stack[i + 1].kind = "download"
              /\ stack[i + 1].phase = "process"
              /\ stack[i + 1].save_path = stack[i].manifest_path
              /\ stack[i].manifest_path \in DOMAIN fs
              /\ fs[stack[i].manifest_path].complete
              /\ stack[i].data = fs[stack[i].manifest_path].body.nodes
              /\ stack[i].manifest_path \in downloaded_files

\* a fetch made from a nested manifest while the referencing walk still has
\* nodes to visit
C16_Witness ==
    /\ Len(stack) >= 4
    /\ stack[1].kind = "download"
    /\ stack[1].phase = "save"
    /\ stack[2].kind = "walk"
    /\ stack[3].phase = "process"
    /\ stack[4].kind = "walk"
    /\ stack[4].data = RootF.nodes
    /\ stack[4].called = <<1>>
    /\ stack[4].pending = <<2, 4>>

\* the path of the directory that holds the file at path m
DirectoryOf(m) == SubSeq(m, 1, Len(m) - Len(LastSegment(m)) - 1)

\* C17: every download_file call made from any node of a fetched manifest
\* stored at P is resolved with parentFolder = the name of the directory that
\* holds P and basePath = that directory; for the root manifest they are the
\* empty string and the output root.
C17_FolderContextPerManifest ==
    \A i \in 1..(Len(stack) - 1) :
        stack[i].kind = "download" =>
            LET f == stack[i]
                w == stack[i + 1]
                m == w.manifest_path
            IN  IF i + 1 = Len(stack)
                THEN /\ f.parent_folder = <<>>
                     /\ w.parent_folder = <<>>
                     /\ w.base_path = OutputRoot
                ELSE /\ SegmentCount(m) >= 2
                     /\ f.parent_folder = Segment(m, SegmentCount(m) - 1)
                     /\ w.parent_folder = f.parent_folder
                     /\ w.base_path = DirectoryOf(m)

\* a call from a node below the root node of a fetched manifest
C17_Witness ==
    /\ Len(stack) >= 4
    /\ stack[1].kind = "download"
    /\ stack[1].url = R_sub
    /\ stack[1].parent_folder = <<"Tile_1">>
    /\ stack[2].kind = "walk"
    /\ stack[2].data = NestedA.nodes
    /\ stack[2].called = <<1, 2>>
    /\ stack[2].manifest_path = <<"downloaded_tiles", "/", "Data", "/", "Tile_1", "/", "t", ".json">>
    /\ stack[2].base_path = <<"downloaded_tiles", "/", "Data", "/", "Tile_1">>

\* the remote URL a download_file call stands for
RemoteUrlOf(f) ==
    IF f.parent_folder # <<>>
    THEN BaseStripped \o <<SEP, "Data", SEP>> \o f.parent_folder \o <<SEP>> \o f.url
    ELSE BaseStripped \o <<SEP>> \o f.url

\* C18: a call that is short-circuited stands for the remote URL whose
\* response is already in the file at its save_path: two references with
\* different remote URLs never share a local path.
C18_DedupKeepsDistinctAssets ==
    (lastCall.kind = "download" /\ lastCall.short) =>
        /\ lastCall.save_path \in DOMAIN origin
        /\ origin[lastCall.save_path] = RemoteUrlOf(lastCall)

\* what membership of downloaded_files stands for
MembersAreFetched ==
    /\ \A p \in downloaded_files :
         /\ p \in DOMAIN origin
         /\ p \in DOMAIN fs
         /\ fs[p].complete
         /\ p \in DOMAIN writeCount
         /\ writeCount[p] >= 1
    /\ \A f \in Downloads : f.phase = "process" => f.save_path \in downloaded_files
    /\ \A i \in 1..(Len(stack) - 1) :
         stack[i].kind = "walk" => stack[i].manifest_path \in downloaded_files
    /\ RootCopy \notin downloaded_files

\* C19: downloaded_files holds only paths whose GET succeeded and whose file
\* was written completely; it only grows; a path is a member before its file
\* is processed as a manifest; the root copy's path is never a member.
C19_DownloadedFilesMembership ==
    [][ /\ downloaded_files \subseteq downloaded_files'
        /\ MembersAreFetched' ]_vars

\* a fetched manifest named like the root copy is a member while it is
\* processed, the root copy is on disk and is not
C19_Witness ==
    /\ RootCopy \in DOMAIN fs
    /\ RootCopy \notin downloaded_files
    /\ \E f \in Downloads :
         /\ f.phase = "process"
         /\ f.save_path = <<"downloaded_tiles", "/", "Data", "/", "tileset", ".json">>
         /\ f.save_path \in downloaded_files
         /\ fs[f.save_path].complete
=============================================================================
